---------------------------- MODULE Spec2Model ----------------------------
(***************************************************************************)
(* Model of EMaligner/EMaligner.py: the per-group chunk assembler          *)
(* (calculate_processing_chunk), the pair weight factor (tilepair_weight), *)
(* the chunk mergers (concatenate_chunks, concatenate_results), the loader *)
(* of persisted CSR files (assemble_from_hdf5), the system builder         *)
(* (create_CSR_A) with its worker pool, and a run (run,                    *)
(* assemble_and_solve, solve_or_not).                                      *)
(*                                                                         *)
(* Conventions.  Python arrays are sequences; a Python position p is the   *)
(* sequence position p+1, while stored VALUES (column indices, row         *)
(* pointers, tile indices) stay 0-based as in the code.  A value that may  *)
(* be None is a sequence of length 0 (None) or 1 (the value).  Floating    *)
(* point weights are exact rationals <<numerator, denominator>>.           *)
(***************************************************************************)
EXTENDS Integers, Sequences, FiniteSets, TLC

(***************************************************************************)
(* Bounds of the model.                                                    *)
(***************************************************************************)
NTiles == 3
MaxZ == 2
MaxMatches == 2
NptsMax == 2
LastSection == 1

(***************************************************************************)
(* None-able values.                                                       *)
(***************************************************************************)
None == <<>>
Some(x) == <<x>>
IsNone(o) == o = <<>>
Val(o) == o[1]

(***************************************************************************)
(* Rationals standing for the float64 weights.                             *)
(***************************************************************************)
Abs(x) == IF x < 0 THEN -x ELSE x

RECURSIVE Gcd(_, _)
Gcd(a, b) == IF b = 0 THEN a ELSE Gcd(b, a % b)

Rat(n, d) == LET g == Gcd(Abs(n), Abs(d)) IN <<n \div g, d \div g>>
RatMul(a, b) == Rat(a[1] * b[1], a[2] * b[2])
RatDivInt(a, k) == Rat(a[1], a[2] * k)

(***************************************************************************)
(* Sequence helpers: np.append / np.concatenate, slices, arange offsets.   *)
(***************************************************************************)
RECURSIVE Concat(_)
Concat(ss) == IF ss = <<>> THEN <<>> ELSE Head(ss) \o Concat(Tail(ss))

Zeros(n) == [i \in 1..n |-> 0]
Last(s) == s[Len(s)]
AddAll(s, c) == [i \in 1..Len(s) |-> s[i] + c]
SelectIdx(s, keep) == LET F[i \in 0..Len(s)] ==
                              IF i = 0 THEN <<>>
                              ELSE IF keep[i] THEN Append(F[i-1], s[i]) ELSE F[i-1]
                      IN  F[Len(s)]

\* list.index(x): 0-based position of the first occurrence
ListIndex(s, x) == (CHOOSE i \in 1..Len(s) : s[i] = x /\ \A j \in 1..(i-1) : s[j] # x) - 1


(***************************************************************************)
(* Configuration (args['matrix_assembly']) and the inputs of one run.      *)
(***************************************************************************)
\* depth lists: 0..d for every d, and one list without the montage depth
DepthLists == {[i \in 1..(d + 1) |-> i - 1] : d \in 0..MaxZ} \cup {<<1, 2>>}

\* an explicit weight-by-depth table for a depth list: 1, 1/2, 1/3, ...
DepthTable(depth) == [i \in 1..Len(depth) |-> Rat(1, i)]

WeightConfigs ==
    {[depth |-> dl, explicit_weight_by_depth |-> ex,
      montage_pt_weight |-> mw, cross_pt_weight |-> cw, inverse_dz |-> inv,
      npts_min |-> 1, npts_max |-> NptsMax] :
        dl \in DepthLists, ex \in {None},
        mw \in {Rat(2, 1), Rat(1, 1)}, cw \in {Rat(1, 1), Rat(1, 2)},
        inv \in BOOLEAN}
    \cup
    {[depth |-> dl, explicit_weight_by_depth |-> Some(DepthTable(dl)),
      montage_pt_weight |-> mw, cross_pt_weight |-> cw, inverse_dz |-> inv,
      npts_min |-> 1, npts_max |-> NptsMax] :
        dl \in DepthLists,
        mw \in {Rat(2, 1), Rat(1, 1)}, cw \in {Rat(1, 1), Rat(1, 2)},
        inv \in BOOLEAN}

\* depth table [0:1.0, 1:0.5], montage weight 2.0, cross weight 1.0, inverse-dz off
TableConfig == [depth |-> <<0, 1>>,
                explicit_weight_by_depth |-> Some(<<Rat(1, 1), Rat(1, 2)>>),
                montage_pt_weight |-> Rat(2, 1), cross_pt_weight |-> Rat(1, 1),
                inverse_dz |-> FALSE, npts_min |-> 1, npts_max |-> NptsMax]

\* no table: montage 2.0, cross 1.0 divided by the section distance + 1
InverseConfig == [depth |-> <<0, 1, 2>>, explicit_weight_by_depth |-> None,
                  montage_pt_weight |-> Rat(2, 1), cross_pt_weight |-> Rat(1, 1),
                  inverse_dz |-> TRUE, npts_min |-> 1, npts_max |-> NptsMax]

ChunkConfigs == {TableConfig, InverseConfig}

Sections == 0..MaxZ

(***************************************************************************)
(* tilepair_weight(z1, z2, matrix_assembly)                                *)
(***************************************************************************)
\* tilepair_weight without the inverse-distance division
tilepair_weight_nodz(z1, z2, ma) ==
    IF ~IsNone(ma.explicit_weight_by_depth)
    THEN Val(ma.explicit_weight_by_depth)[ListIndex(ma.depth, Abs(z1 - z2)) + 1]
    ELSE IF z1 = z2 THEN ma.montage_pt_weight
         ELSE ma.cross_pt_weight

tilepair_weight(z1, z2, ma) ==
    IF ~IsNone(ma.explicit_weight_by_depth)
    THEN LET ind == ListIndex(ma.depth, Abs(z1 - z2))
         IN  Val(ma.explicit_weight_by_depth)[ind + 1]
    ELSE IF z1 = z2
         THEN ma.montage_pt_weight
         ELSE IF ma.inverse_dz
              THEN RatDivInt(ma.cross_pt_weight, Abs(z2 - z1) + 1)
              ELSE ma.cross_pt_weight

(***************************************************************************)
(* The transform model (AlignerTransform), a translation-like model: two   *)
(* rows per point match (x and y), two non-zeros per row (one column of    *)
(* the p tile, one of the q tile), two degrees of freedom per tile.        *)
(***************************************************************************)
nnz_per_row == 2
rows_per_ptmatch == 2
DOF_per_tile == 2

Min(a, b) == IF a < b THEN a ELSE b

\* match: [mid, pId, qId, n (point pairs), w (the weight of its points)].
\* None when all weights are 0 or n < nmin, else the sub-block of
\* npts = min(n, nmax) points: d, ind, iptr, wts, npts.  Which points a
\* random subsample (choose_random) picks does not change the shape, so the
\* flag is left out; d holds values that identify the match and the entry.
CSR_from_tilepair(match, pind, qind, nmin, nmax) ==
    IF match.w = 0 \/ match.n < nmin
    THEN None
    ELSE LET npts == Min(match.n, nmax)
             nr   == npts * rows_per_ptmatch
         IN  Some([d    |-> [j \in 1..(nr * nnz_per_row) |-> match.mid * 100 + j],
                   ind  |-> [j \in 1..(nr * nnz_per_row) |->
                               LET r == (j - 1) \div nnz_per_row
                                   e == (j - 1) % nnz_per_row
                               IN  (IF e = 0 THEN pind ELSE qind) * DOF_per_tile
                                     + (r % rows_per_ptmatch)],
                   iptr |-> [r \in 1..nr |-> r * nnz_per_row],
                   wts  |-> [r \in 1..nr |-> Rat(match.w, 1)],
                   npts |-> npts])

(***************************************************************************)
(* State.                                                                  *)
(*                                                                         *)
(* One ChunkAssembler task in steps (calculate_processing_chunk):          *)
(*   tile_ids, pair, matrix_assembly   its arguments (fargs)               *)
(*   fetched                           what utils.get_matches returns      *)
(*   cpc                               the task's position                 *)
(*   matches, pinds, qinds             the filtered matches and their      *)
(*                                     tile indices                        *)
(*   data, indices, indptr, weights    the pre-allocated buffers           *)
(*   nrows, k                          rows written, loop counter          *)
(*   tilepair_weightfac                the pair weight factor              *)
(*   chunk                             the dict that is returned           *)
(*   blocks                            history: the sub-blocks spliced in  *)
(*   tp_weight                         result of a tilepair_weight call    *)
(***************************************************************************)
VARIABLES tile_ids, pair, matrix_assembly, fetched, cpc, matches, pinds, qinds,
          data, indices, indptr, weights, nrows, k, tilepair_weightfac, chunk,
          blocks, tp_weight

(***************************************************************************)
(* The system builder (create_CSR_A) and its worker pool:                  *)
(*   zvals, pairs          the sections and their tile-pair groups         *)
(*   store                 the match store: the matches of every group     *)
(*   n_parallel_jobs       the size of the pool                            *)
(*   output_mode           args['output_mode']                             *)
(*   chunks_per_file       how many chunks the writer puts in one file     *)
(*   task, out, finished   per task: its state and the chunk it returned;  *)
(*                         the order in which the tasks completed          *)
(*   pc                    position of create_CSR_A                        *)
(*   results               what pool.map returned                          *)
(*   func_result           the dict create_CSR_A builds                    *)
(*   merged                what concatenate_results returned (result)      *)
(*   CSR_A                 what create_CSR_A returned to its caller        *)
(*   raised                the exception that ended the build              *)
(* The persisted system:                                                   *)
(*   files                 the CSR data files, in datafile_names order     *)
(***************************************************************************)
VARIABLES zvals, pairs, store, n_parallel_jobs, output_mode, chunks_per_file,
          task, out, finished, pc, results, func_result, merged, CSR_A, raised

VARIABLES files

buildVars == <<zvals, pairs, store, n_parallel_jobs, output_mode,
               chunks_per_file, task, out, finished, pc, results, func_result,
               merged, CSR_A, raised>>

loadVars == <<files>>

chunkVars == <<tile_ids, pair, matrix_assembly, fetched, cpc, matches, pinds,
               qinds, data, indices, indptr, weights, nrows, k,
               tilepair_weightfac, chunk, blocks, tp_weight>>

(***************************************************************************)
(* A run (run, assemble_and_solve, solve_or_not):                          *)
(*   solve_type, first_section, last_section, close_stack,                 *)
(*   ingest_from_file, assemble_from_file, profile_data_load               *)
(*                         args; a file argument is TRUE when it is not '' *)
(*   z_in_stack            the sections the input stack reported           *)
(*   run_pc, run_zvals, run_k   position of run, its zvals, loop counter   *)
(*   ingestconn            None, or the connection to the output stack     *)
(*   stack_state           state of the output stack                       *)
(*   as_pc, as_zvals       position and argument of assemble_and_solve     *)
(*   assemble_result, as_results, as_raised   its locals; what it raised   *)
(*   run_results           self.results                                    *)
(*   as_calls              history: the zvals of every assemble_and_solve  *)
(*   solve_calls           history: the arguments of every utils.solve     *)
(*   sink_calls            history: every utils.write_to_new_stack         *)
(***************************************************************************)
VARIABLES solve_type, first_section, last_section, close_stack,
          ingest_from_file, assemble_from_file, profile_data_load,
          z_in_stack, run_pc, run_zvals, run_k,
          ingestconn, stack_state, as_pc, as_zvals, assemble_result,
          as_results, as_raised, run_results, as_calls, solve_calls,
          sink_calls

runVars == <<solve_type, first_section, last_section, close_stack,
             ingest_from_file, assemble_from_file, profile_data_load,
             z_in_stack, run_pc, run_zvals, run_k,
             ingestconn, stack_state, as_pc, as_zvals, assemble_result,
             as_results, as_raised, run_results, as_calls, solve_calls,
             sink_calls>>

(***************************************************************************)
(* Inputs of a task: the global tile-id array, the match store.            *)
(***************************************************************************)
\* tile ids 1..NTiles in the order of resolved.tilespecs: ascending, or rotated
TileIdOrders == {[i \in 1..NTiles |-> i],
                 [i \in 1..NTiles |-> ((i + NTiles - 2) % NTiles) + 1]}

\* an id the match store knows and the stack does not
ForeignId == NTiles + 1

\* what the match store can hold for a pair of tiles: (pId, qId, n, w)
MatchEnds == {<<1, 2, 1, 1>>,              \* fewer points than npts_max
              <<2, 3, NptsMax, 2>>,        \* exactly npts_max points
              <<3, 1, NptsMax + 1, 1>>,    \* more points than npts_max
              <<2, 1, 0, 1>>,              \* fewer points than npts_min
              <<1, 3, NptsMax, 0>>,        \* all point weights 0
              <<1, ForeignId, 1, 1>>,      \* target tile not in the stack
              <<ForeignId, 2, 1, 1>>}      \* source tile not in the stack

MatchOf(e, i) == [mid |-> i, pId |-> e[1], qId |-> e[2], n |-> e[3], w |-> e[4]]

\* the lists get_matches can return: up to MaxMatches matches
MatchLists == UNION {{[i \in 1..len |-> MatchOf(es[i], i)] :
                        es \in [1..len -> MatchEnds]} : len \in 0..MaxMatches}

\* utils.determine_zvalue_pairs: for every section z and every depth d of the
\* depth list, the group (z, z + d) when section z + d exists
PairsFrom(z, depth, zs) ==
    LET F[i \in 0..Len(depth)] ==
          IF i = 0 THEN <<>>
          ELSE IF (z + depth[i]) \in zs
               THEN Append(F[i-1], [z1 |-> z, z2 |-> z + depth[i],
                                    section1 |-> z, section2 |-> z + depth[i]])
               ELSE F[i-1]
    IN  F[Len(depth)]

determine_zvalue_pairs(zs, depth) ==
    LET lo == CHOOSE z \in zs : \A y \in zs : z <= y
        hi == CHOOSE z \in zs : \A y \in zs : z >= y
        F[z \in (lo - 1)..hi] ==
          IF z = lo - 1 THEN <<>>
          ELSE IF z \in zs THEN F[z-1] \o PairsFrom(z, depth, zs)
               ELSE F[z-1]
    IN  F[hi]

Range(s) == {s[i] : i \in 1..Len(s)}

(***************************************************************************)
(* calculate_processing_chunk, piece by piece.                             *)
(***************************************************************************)
\* chunk = {} ... : the dict as first built (lines 32-39)
EmptyChunk(tids) == [tiles_used |-> [i \in 1..Len(tids) |-> FALSE],
                     data |-> None, indices |-> None, indptr |-> None,
                     weights |-> None, nchunks |-> 0, zlist |-> <<>>]

\* np.in1d(pids, tile_ids) & np.in1d(qids, tile_ids)
InStack(ms, tids) == [i \in 1..Len(ms) |->
                        ms[i].pId \in Range(tids) /\ ms[i].qId \in Range(tids)]

\* np.argsort(tile_ids): 0-based positions of tile_ids in ascending id order
ArgSort(tids) ==
    [j \in 1..Len(tids) |->
        (CHOOSE i \in 1..Len(tids) :
            Cardinality({x \in 1..Len(tids) :
                           tids[x] < tids[i] \/ (tids[x] = tids[i] /\ x < i)}) = j - 1) - 1]

\* np.searchsorted(tile_ids, v, sorter=sorter): leftmost insertion position
SearchSorted(tids, v) == Cardinality({x \in 1..Len(tids) : tids[x] < v})

\* the tile index taken from the search position alone
TileIndexNoSorter(tids, v) == SearchSorted(tids, v)

\* sorter[np.searchsorted(tile_ids, v, sorter=sorter)]
TileIndex(tids, v) == ArgSort(tids)[SearchSorted(tids, v) + 1]

\* buffer sizes without the npts_max factor
PreallocNoMax(nmatches, ma) == [nd |-> nnz_per_row * rows_per_ptmatch * nmatches,
                                ni |-> rows_per_ptmatch * nmatches]

\* sizes of the pre-allocated buffers (lines 97-105)
Prealloc(nmatches, ma) ==
    [nd |-> nnz_per_row * rows_per_ptmatch * ma.npts_max * nmatches,
     ni |-> rows_per_ptmatch * ma.npts_max * nmatches]

\* buf[np.arange(count) + start] = vals : TRUE when numpy accepts the write
WriteOk(buf, start, count, vals) ==
    /\ start + count <= Len(buf)
    /\ (Len(vals) = count \/ Len(vals) = 1)

WriteAt(buf, start, count, vals) ==
    [i \in 1..Len(buf) |->
        IF i > start /\ i <= start + count
        THEN (IF Len(vals) = 1 THEN vals[1] ELSE vals[i - start])
        ELSE buf[i]]

\* wts * tilepair_weightfac without the factor
ScaledWeightsUnscaled(wts, fac) == wts

\* wts * tilepair_weightfac (line 150)
ScaledWeights(wts, fac) == [i \in 1..Len(wts) |-> RatMul(wts[i], fac)]

\* the buffers and counters of the assembly loop as one value
LoopState(d, ind, iptr, wts, n, used) ==
    [data |-> d, indices |-> ind, indptr |-> iptr, weights |-> wts,
     nrows |-> n, tiles_used |-> used, err |-> FALSE]

\* lines 106-115: the buffers as allocated
Allocated(nmatches, ma, used) ==
    LET sz == Prealloc(nmatches, ma)
    IN  LoopState(Zeros(sz.nd), Zeros(sz.nd), Zeros(sz.ni + 1),
                  [i \in 1..sz.ni |-> Rat(0, 1)], 0, used)

\* one iteration of the loop over the matches (lines 122-153); sub is what
\* transform.CSR_from_tilepair returned for match k
LoopBody(st, sub, pind, qind, fac) ==
    IF IsNone(sub) THEN st
    ELSE LET b     == Val(sub)
             used  == [st.tiles_used EXCEPT ![pind + 1] = TRUE, ![qind + 1] = TRUE]
             cntd  == b.npts * rows_per_ptmatch * nnz_per_row
             cntr  == b.npts * rows_per_ptmatch
             strd  == st.nrows * nnz_per_row
             wfac  == ScaledWeights(b.wts, fac)
             ok    == /\ WriteOk(st.data, strd, cntd, b.d)
                      /\ WriteOk(st.indices, strd, cntd, b.ind)
                      /\ WriteOk(st.weights, st.nrows, cntr, wfac)
                      /\ st.nrows + 1 <= Len(st.indptr)
                      /\ WriteOk(st.indptr, st.nrows + 1, cntr, b.iptr)
         IN  IF ~ok THEN [st EXCEPT !.tiles_used = used, !.err = TRUE]
             ELSE [data       |-> WriteAt(st.data, strd, cntd, b.d),
                   indices    |-> WriteAt(st.indices, strd, cntd, b.ind),
                   weights    |-> WriteAt(st.weights, st.nrows, cntr, wfac),
                   indptr     |-> WriteAt(st.indptr, st.nrows + 1, cntr,
                                          AddAll(b.iptr, st.indptr[st.nrows + 1])),
                   nrows      |-> st.nrows + Len(b.wts),
                   tiles_used |-> used,
                   err        |-> FALSE]

\* python slice s[0:n]
Slice0(s, n) == SubSeq(s, 1, Min(n, Len(s)))

\* the returned dict with the buffers left at their allocated size
TruncatedNot(st, c, pr) ==
    [c EXCEPT !.tiles_used = st.tiles_used,
              !.data = Some(st.data), !.weights = Some(st.weights),
              !.indices = Some(st.indices), !.indptr = Some(st.indptr),
              !.zlist = <<pr.z1, pr.z2>>]

\* lines 155-171: truncate the buffers and fill the returned dict
Truncated(st, c, pr) ==
    [c EXCEPT !.tiles_used = st.tiles_used,
              !.data    = Some(Slice0(st.data, st.nrows * nnz_per_row)),
              !.weights = Some(Slice0(st.weights, st.nrows)),
              !.indices = Some(Slice0(st.indices, st.nrows * nnz_per_row)),
              !.indptr  = Some(Slice0(st.indptr, st.nrows + 1)),
              !.zlist   = <<pr.z1, pr.z2>>]

\* the whole function: [ok |-> it returned, chunk |-> what it returned]
calculate_processing_chunk(pr, got, tids, ma) ==
    LET c0   == EmptyChunk(tids)
        ms   == SelectIdx(got, InStack(got, tids))
        fac  == tilepair_weight(pr.z1, pr.z2, ma)
        F[i \in 0..Len(ms)] ==
            IF i = 0 THEN Allocated(Len(ms), ma, c0.tiles_used)
            ELSE IF F[i-1].err THEN F[i-1]
            ELSE LET pind == TileIndex(tids, ms[i].pId)
                     qind == TileIndex(tids, ms[i].qId)
                 IN  LoopBody(F[i-1],
                              CSR_from_tilepair(ms[i], pind, qind,
                                                ma.npts_min, ma.npts_max),
                              pind, qind, fac)
    IN  IF Len(got) = 0 \/ Len(ms) = 0 THEN [ok |-> TRUE, chunk |-> c0]
        ELSE IF F[Len(ms)].err THEN [ok |-> FALSE, chunk |-> c0]
        ELSE [ok |-> TRUE, chunk |-> Truncated(F[Len(ms)], c0, pr)]

(***************************************************************************)
(* One ChunkAssembler task, step by step.                                  *)
(***************************************************************************)
NoResult == [A |-> None, x |-> None, reg |-> None, weights |-> None,
             tiles_used |-> None, metadata |-> None]

BuildIdle ==
    /\ zvals = {} /\ pairs = <<>> /\ store = <<>> /\ n_parallel_jobs = 1
    /\ output_mode = "none" /\ chunks_per_file = 1
    /\ task = <<>> /\ out = <<>> /\ finished = <<>>
    /\ pc = "idle" /\ results = <<>> /\ func_result = NoResult
    /\ merged = None /\ CSR_A = None /\ raised = None

LoadIdle == files = <<>>

\* Names the file uses and does not define, assign or import: three globals
\* (lines 278, 322, 457) and the method self.write_chunks_to_files (line 540).
UnboundNames == {"get_tileids_and_tforms", "write_reg_and_tforms",
                 "write_chunks_to_files", "EMalignerException"}

\* the names of UnboundNames that are bound when the code runs: none (the
\* imports of lines 1-19 and the defs of the file bind none of them), so using
\* one raises NameError, AttributeError for the method
namespace == {}

RunIdle ==
    /\ solve_type = "3D" /\ first_section = 0 /\ last_section = 0
    /\ close_stack = FALSE /\ ingest_from_file = FALSE
    /\ assemble_from_file = FALSE /\ profile_data_load = FALSE
    /\ z_in_stack = {}
    /\ run_pc = "idle" /\ run_zvals = <<>> /\ run_k = 0
    /\ ingestconn = None /\ stack_state = "none"
    /\ as_pc = "idle" /\ as_zvals = <<>> /\ assemble_result = None
    /\ as_results = None /\ as_raised = None /\ run_results = None
    /\ as_calls = <<>> /\ solve_calls = <<>> /\ sink_calls = <<>>

ChunkIdle ==
    /\ fetched = <<>> /\ cpc = "start" /\ matches = <<>>
    /\ pinds = <<>> /\ qinds = <<>>
    /\ data = <<>> /\ indices = <<>> /\ indptr = <<>> /\ weights = <<>>
    /\ nrows = 0 /\ k = 0 /\ tilepair_weightfac = None
    /\ chunk = None /\ blocks = <<>> /\ tp_weight = None

ChunkInit ==
    /\ tile_ids \in TileIdOrders
    /\ matrix_assembly \in ChunkConfigs
    /\ pair \in Range(determine_zvalue_pairs(Sections, matrix_assembly.depth))
    /\ ChunkIdle /\ BuildIdle /\ LoadIdle /\ RunIdle

\* lines 26-52: build the dict, fetch the matches, return when there are none
GetMatches ==
    /\ cpc = "start"
    /\ \E got \in MatchLists :
         /\ fetched' = got
         /\ cpc' = IF Len(got) = 0 THEN "returned" ELSE "filter"
    /\ chunk' = Some(EmptyChunk(tile_ids))
    /\ UNCHANGED <<tile_ids, pair, matrix_assembly, matches, pinds, qinds, data,
                   indices, indptr, weights, nrows, k, tilepair_weightfac,
                   blocks, tp_weight>>
    /\ UNCHANGED <<buildVars, loadVars, runVars>>

\* lines 55-69: keep the matches with both tiles in the stack
FilterMatches ==
    /\ cpc = "filter"
    /\ matches' = SelectIdx(fetched, InStack(fetched, tile_ids))
    /\ cpc' = IF Len(matches') = 0 THEN "returned" ELSE "alloc"
    /\ UNCHANGED <<tile_ids, pair, matrix_assembly, fetched, pinds, qinds, data,
                   indices, indptr, weights, nrows, k, tilepair_weightfac,
                   chunk, blocks, tp_weight>>
    /\ UNCHANGED <<buildVars, loadVars, runVars>>

\* lines 87-120: tile indices, buffers, weight factor
Allocate ==
    /\ cpc = "alloc"
    /\ pinds' = [i \in 1..Len(matches) |-> TileIndex(tile_ids, matches[i].pId)]
    /\ qinds' = [i \in 1..Len(matches) |-> TileIndex(tile_ids, matches[i].qId)]
    /\ LET st == Allocated(Len(matches), matrix_assembly, Val(chunk).tiles_used)
       IN  /\ data' = st.data /\ indices' = st.indices
           /\ indptr' = st.indptr /\ weights' = st.weights
           /\ nrows' = st.nrows
    /\ tilepair_weightfac' = Some(tilepair_weight(pair.z1, pair.z2, matrix_assembly))
    /\ k' = 0
    /\ cpc' = "loop"
    /\ UNCHANGED <<tile_ids, pair, matrix_assembly, fetched, matches, chunk,
                   blocks, tp_weight>>
    /\ UNCHANGED <<buildVars, loadVars, runVars>>

\* lines 122-153: one iteration of the loop
LoopStep ==
    /\ cpc = "loop" /\ k < Len(matches)
    /\ LET sub == CSR_from_tilepair(matches[k + 1], pinds[k + 1], qinds[k + 1],
                                    matrix_assembly.npts_min,
                                    matrix_assembly.npts_max)
           st  == LoopBody(LoopState(data, indices, indptr, weights, nrows,
                                     Val(chunk).tiles_used),
                           sub, pinds[k + 1], qinds[k + 1], Val(tilepair_weightfac))
       IN  /\ data' = st.data /\ indices' = st.indices
           /\ indptr' = st.indptr /\ weights' = st.weights
           /\ nrows' = st.nrows
           /\ chunk' = Some([Val(chunk) EXCEPT !.tiles_used = st.tiles_used])
           /\ blocks' = IF IsNone(sub) THEN blocks ELSE Append(blocks, Val(sub))
           /\ cpc' = IF st.err THEN "raised" ELSE "loop"
    /\ k' = k + 1
    /\ UNCHANGED <<tile_ids, pair, matrix_assembly, fetched, matches, pinds,
                   qinds, tilepair_weightfac, tp_weight>>
    /\ UNCHANGED <<buildVars, loadVars, runVars>>

\* lines 155-171: truncate and return
Truncate ==
    /\ cpc = "loop" /\ k = Len(matches)
    /\ chunk' = Some(Truncated(LoopState(data, indices, indptr, weights, nrows,
                                         Val(chunk).tiles_used),
                               Val(chunk), pair))
    /\ cpc' = "returned"
    /\ UNCHANGED <<tile_ids, pair, matrix_assembly, fetched, matches, pinds,
                   qinds, data, indices, indptr, weights, nrows, k,
                   tilepair_weightfac, blocks, tp_weight>>
    /\ UNCHANGED <<buildVars, loadVars, runVars>>

(***************************************************************************)
(* tilepair_weight as a function of its arguments.                         *)
(***************************************************************************)
WeightInit ==
    /\ tile_ids \in {[i \in 1..NTiles |-> i]}
    /\ matrix_assembly \in WeightConfigs
    /\ pair \in {[z1 |-> a, z2 |-> b, section1 |-> a, section2 |-> b] :
                   a \in Sections, b \in Sections}
    /\ Abs(pair.z1 - pair.z2) \in Range(matrix_assembly.depth)
    /\ ChunkIdle /\ BuildIdle /\ LoadIdle /\ RunIdle

CallWeight ==
    /\ tp_weight = None
    /\ tp_weight' = Some(tilepair_weight(pair.z1, pair.z2, matrix_assembly))
    /\ UNCHANGED <<tile_ids, pair, matrix_assembly, fetched, cpc, matches, pinds,
                   qinds, data, indices, indptr, weights, nrows, k,
                   tilepair_weightfac, chunk, blocks>>
    /\ UNCHANGED <<buildVars, loadVars, runVars>>

vars == <<chunkVars, buildVars, loadVars, runVars>>

ChunkNext == GetMatches \/ FilterMatches \/ Allocate \/ LoopStep \/ Truncate
SpecChunk == ChunkInit /\ [][ChunkNext]_vars

WeightNext == CallWeight
SpecWeight == WeightInit /\ [][WeightNext]_vars

(***************************************************************************)
(* ChunkMerger: concatenate_chunks and concatenate_results.                *)
(***************************************************************************)
NonNull(cs) == SelectIdx(cs, [i \in 1..Len(cs) |-> ~IsNone(cs[i].data)])

\* concatenate_chunks (lines 468-482): the first chunk with data, or the last
\* chunk when none has, with every later chunk with data appended to it
concatenate_chunks(chunks) ==
    LET n  == Len(chunks)
        i0 == IF \E i \in 1..n : ~IsNone(chunks[i].data)
              THEN CHOOSE i \in 1..n :
                     /\ ~IsNone(chunks[i].data)
                     /\ \A j \in 1..(i - 1) : IsNone(chunks[j].data)
              ELSE n
        F[i \in i0..n] ==
            IF i = i0 THEN chunks[i0]
            ELSE IF IsNone(chunks[i].data) THEN F[i-1]
            ELSE LET c0 == F[i-1]
                     c  == chunks[i]
                     lastptr == Last(Val(c0.indptr))
                 IN  [c0 EXCEPT
                        !.data    = Some(Val(c0.data) \o Val(c.data)),
                        !.weights = Some(Val(c0.weights) \o Val(c.weights)),
                        !.indices = Some(Val(c0.indices) \o Val(c.indices)),
                        !.zlist   = c0.zlist \o c.zlist,
                        !.indptr  = Some(Val(c0.indptr)
                                         \o AddAll(Tail(Val(c.indptr)), lastptr))]
    IN  F[n]

\* the caller's list after concatenate_chunks(chunks): c0 is chunks[i] itself
\* (line 474) and its keys are rebound (lines 477-481), so the first chunk
\* with data now holds what was returned
chunks_after_concatenate(chunks) ==
    IF \E i \in 1..Len(chunks) : ~IsNone(chunks[i].data)
    THEN LET i0 == CHOOSE i \in 1..Len(chunks) :
                     /\ ~IsNone(chunks[i].data)
                     /\ \A j \in 1..(i - 1) : IsNone(chunks[j].data)
         IN  [chunks EXCEPT ![i0] = concatenate_chunks(chunks)]
    ELSE chunks

\* np.cumsum
CumSum(s) == LET F[i \in 0..Len(s)] == IF i = 0 THEN 0 ELSE F[i-1] + s[i]
             IN  [i \in 1..Len(s) |-> F[i]]

\* the row pointers joined with every chunk's leading entry kept
JoinPtrKeepLead(ptrs) ==
    LET ends == CumSum([i \in 1..Len(ptrs) |-> Last(ptrs[i])])
    IN  Concat([i \in 1..Len(ptrs) |->
                  IF i = 1 THEN ptrs[i] ELSE AddAll(ptrs[i], ends[i-1])])

\* lines 501-507: the row pointers of the chunks with data, every chunk after
\* the first without its leading entry and offset by the sum of the earlier ends
JoinPtr(ptrs) ==
    LET indptr_cumends == CumSum([i \in 1..Len(ptrs) |-> Last(ptrs[i])])
    IN  Concat([i \in 1..Len(ptrs) |->
                  IF i = 1 THEN ptrs[i]
                  ELSE AddAll(Tail(ptrs[i]), indptr_cumends[i-1])])

\* concatenate_results (lines 485-509); None stands for the ValueError that
\* np.concatenate raises on an empty list of arrays
concatenate_results(rs) ==
    LET cs == NonNull(rs)
    IN  IF Len(cs) = 0 THEN None
        ELSE Some([data    |-> Concat([i \in 1..Len(cs) |-> Val(cs[i].data)]),
                   weights |-> Concat([i \in 1..Len(cs) |-> Val(cs[i].weights)]),
                   indices |-> Concat([i \in 1..Len(cs) |-> Val(cs[i].indices)]),
                   zlist   |-> Concat([i \in 1..Len(cs) |-> cs[i].zlist]),
                   indptr  |-> JoinPtr([i \in 1..Len(cs) |-> Val(cs[i].indptr)])])

(***************************************************************************)
(* scipy: csr_matrix((data, indices, indptr)) and A[:, mask].              *)
(***************************************************************************)
SeqMax(s) == CHOOSE m \in Range(s) : \A x \in Range(s) : x <= m

\* the constructor without a shape: rows from the row pointers, columns from
\* the largest column index; None stands for its ValueError
csr_matrix(d, ind, iptr) ==
    IF Len(iptr) = 0 \/ Len(ind) = 0 \/ Len(ind) # Len(d)
       \/ iptr[1] # 0 \/ Last(iptr) > Len(ind)
    THEN None
    ELSE Some([shape |-> <<Len(iptr) - 1, SeqMax(ind) + 1>>,
               data |-> d, indices |-> ind, indptr |-> iptr])

\* positions (0-based) where a boolean array is True: mask.nonzero()[0]
NonZero(mask) == SelectIdx([i \in 1..Len(mask) |-> i - 1], mask)

\* A[:, mask]: the mask becomes the list of its True positions, each of
\* which must be a column of A (IndexError otherwise, None here); the result
\* keeps those columns, renumbered in order.  cols names, for every column
\* of the result, the column of A it was.
ColumnSlice(A, mask) ==
    LET cols == NonZero(mask)
        keep == [j \in 1..Len(A.indices) |-> A.indices[j] \in Range(cols)]
        newc(c) == Cardinality({x \in Range(cols) : x < c})
        kept == SelectIdx(A.indices, keep)
        rowcount(r) == Cardinality({j \in (A.indptr[r] + 1)..A.indptr[r + 1] : keep[j]})
    IN  IF \E c \in Range(cols) : c >= A.shape[2] THEN None
        ELSE Some([shape   |-> <<A.shape[1], Len(cols)>>,
                   data    |-> SelectIdx(A.data, keep),
                   indices |-> [j \in 1..Len(kept) |-> newc(kept[j])],
                   indptr  |-> <<0>> \o CumSum([r \in 1..A.shape[1] |-> rowcount(r)]),
                   cols    |-> cols])

(***************************************************************************)
(* Pieces of create_CSR_A.                                                 *)
(***************************************************************************)
\* lines 534-537: the masks of all chunks or-ed together
MaskUnionFirst(rs) == rs[1].tiles_used

MaskUnion(rs) ==
    LET F[i \in 1..Len(rs)] ==
          IF i = 1 THEN rs[1].tiles_used
          ELSE [t \in 1..Len(F[i-1]) |-> F[i-1][t] \/ rs[i].tiles_used[t]]
    IN  F[Len(rs)]

\* a tile's to_solve_vec() / regularization(): one entry per degree of freedom
TileVec(tid) == [c \in 1..DOF_per_tile |-> tid * 10 + c]

\* lines 543-548: the vectors of the used tiles, in the order of the tile
\* specs; None stands for the ValueError of np.concatenate on an empty list
UsedTileVecs(tids, used) ==
    LET usedids == Range(SelectIdx(tids, used))
        vecs == SelectIdx([i \in 1..Len(tids) |-> TileVec(tids[i])],
                          [i \in 1..Len(tids) |-> tids[i] \in usedids])
    IN  IF Len(vecs) = 0 THEN None ELSE Some(Concat(vecs))

\* the column mask with one entry per tile
SliceIndPerTile(tids, used) == used

\* lines 559-561: the used mask repeated DOF_per_tile times per tile
SliceInd(tids, used) ==
    Concat([i \in 1..Len(tids) |-> [c \in 1..DOF_per_tile |-> used[i]]])

(***************************************************************************)
(* The match store and the tile-pair groups of a build.                    *)
(***************************************************************************)
\* match lists a group can have in the store
NoMatches == <<>>
ForeignOnly == <<MatchOf(<<1, ForeignId, 1, 1>>, 1)>>     \* none within the stack
SkippedOnly == <<MatchOf(<<2, 1, 0, 1>>, 1)>>             \* skipped by the model
Tiles12 == <<MatchOf(<<1, 2, 1, 1>>, 1)>>                 \* tiles 1 and 2
Tiles123 == <<MatchOf(<<2, 3, NptsMax, 2>>, 1),           \* tiles 2 and 3,
              MatchOf(<<3, 1, NptsMax + 1, 1>>, 2),       \* tiles 3 and 1,
              MatchOf(<<1, 3, NptsMax, 0>>, 3)>>          \* and one skipped

\* a store: the matches of the montage group of the first section, of every
\* cross-section group, and of the montage groups of the other sections
Stores == [first : {NoMatches, ForeignOnly, SkippedOnly, Tiles12, Tiles123},
           cross : {NoMatches, SkippedOnly, Tiles123},
           rest  : {ForeignOnly, Tiles12}]

\* utils.get_matches(section1, section2, ...)
get_matches(st, zs, pr) ==
    IF pr.section1 # pr.section2 THEN st.cross
    ELSE IF \A z \in zs : pr.section1 <= z THEN st.first
    ELSE st.rest

\* pool.map with the chunks in the order the tasks completed
MapResultsAsCompleted(outs, order) == [i \in 1..Len(order) |-> Val(outs[order[i]])]

\* pool.map(calculate_processing_chunk, fargs): the chunks in the order of fargs
MapResults(outs, order) == [i \in 1..Len(outs) |-> Val(outs[i])]

\* write_chunks_to_files: every run of chunks_per_file consecutive chunks is
\* joined by concatenate_chunks and, when it has data, written as one file
\* holding data, indices, indptr and weights
write_chunks_to_files(rs, per) ==
    LET nfile == (Len(rs) + per - 1) \div per
        cat(f) == concatenate_chunks(SubSeq(rs, (f - 1) * per + 1,
                                            Min(f * per, Len(rs))))
        all == [f \in 1..nfile |-> cat(f)]
        kept == NonNull(all)
    IN  [f \in 1..Len(kept) |->
            [data |-> Val(kept[f].data), indices |-> Val(kept[f].indices),
             indptr |-> Val(kept[f].indptr), weights |-> Val(kept[f].weights)]]

\* the chunks handed to write_chunks_to_files afterwards: every run was
\* passed to concatenate_chunks, which changes its first chunk with data
chunks_after_write(rs, per) ==
    LET nfile == (Len(rs) + per - 1) \div per
    IN  Concat([f \in 1..nfile |->
                  chunks_after_concatenate(SubSeq(rs, (f - 1) * per + 1,
                                                  Min(f * per, Len(rs))))])

(***************************************************************************)
(* create_CSR_A: the pool, the barrier, the union, the merge, the slice.   *)
(***************************************************************************)
BuildInit ==
    /\ tile_ids \in TileIdOrders
    /\ matrix_assembly = TableConfig
    /\ pair = [z1 |-> 0, z2 |-> 0, section1 |-> 0, section2 |-> 0]
    /\ ChunkIdle /\ LoadIdle /\ RunIdle
    /\ zvals \in {0..z : z \in 0..LastSection}
    /\ pairs = determine_zvalue_pairs(zvals, matrix_assembly.depth)
    /\ store \in Stores
    /\ (Len(pairs) = 1 => (store.cross = NoMatches /\ store.rest = ForeignOnly))
    /\ n_parallel_jobs \in 1..2
    /\ output_mode \in {"none", "hdf5"}
    /\ chunks_per_file \in 1..2
    /\ (output_mode = "none" => chunks_per_file = 1)
    /\ task = [i \in 1..Len(pairs) |-> "pending"]
    /\ out = [i \in 1..Len(pairs) |-> None]
    /\ finished = <<>>
    /\ pc = "map" /\ results = <<>> /\ func_result = NoResult
    /\ merged = None /\ CSR_A = None /\ raised = None

Running == {i \in 1..Len(task) : task[i] = "running"}

\* the pool hands the next task of fargs to a free worker
StartTask(i) ==
    /\ pc = "map" /\ task[i] = "pending"
    /\ \A j \in 1..(i - 1) : task[j] # "pending"
    /\ Cardinality(Running) < n_parallel_jobs
    /\ task' = [task EXCEPT ![i] = "running"]
    /\ UNCHANGED <<zvals, pairs, store, n_parallel_jobs, output_mode,
                   chunks_per_file, out, finished, pc, results, func_result,
                   merged, CSR_A, raised>>
    /\ UNCHANGED <<chunkVars, loadVars, runVars>>

\* a worker runs calculate_processing_chunk on fargs[i] and returns its chunk
FinishTask(i) ==
    /\ pc = "map" /\ task[i] = "running"
    /\ LET r == calculate_processing_chunk(pairs[i],
                                           get_matches(store, zvals, pairs[i]),
                                           tile_ids, matrix_assembly)
       IN  /\ task' = [task EXCEPT ![i] = IF r.ok THEN "done" ELSE "failed"]
           /\ out' = [out EXCEPT ![i] = IF r.ok THEN Some(r.chunk) ELSE None]
    /\ finished' = Append(finished, i)
    /\ UNCHANGED <<zvals, pairs, store, n_parallel_jobs, output_mode,
                   chunks_per_file, pc, results, func_result, merged, CSR_A,
                   raised>>
    /\ UNCHANGED <<chunkVars, loadVars, runVars>>

\* a worker's task raises (the match store cannot be read)
FailTask(i) ==
    /\ pc = "map" /\ task[i] = "running"
    /\ task' = [task EXCEPT ![i] = "failed"]
    /\ finished' = Append(finished, i)
    /\ UNCHANGED <<zvals, pairs, store, n_parallel_jobs, output_mode,
                   chunks_per_file, out, pc, results, func_result, merged,
                   CSR_A, raised>>
    /\ UNCHANGED <<chunkVars, loadVars, runVars>>

\* line 532: pool.map returns once every task has returned
MapReturn ==
    /\ pc = "map"
    /\ \A i \in 1..Len(task) : task[i] = "done"
    /\ results' = MapResults(out, finished)
    /\ pc' = "union"
    /\ UNCHANGED <<zvals, pairs, store, n_parallel_jobs, output_mode,
                   chunks_per_file, task, out, finished, func_result, merged,
                   CSR_A, raised>>
    /\ UNCHANGED <<chunkVars, loadVars, runVars>>

\* line 532: pool.map re-raises a task's exception; the pool is torn down
MapRaise ==
    /\ pc = "map"
    /\ \E i \in 1..Len(task) : task[i] = "failed"
    /\ pc' = "failed"
    /\ raised' = Some("task")
    /\ UNCHANGED <<zvals, pairs, store, n_parallel_jobs, output_mode,
                   chunks_per_file, task, out, finished, results, func_result,
                   merged, CSR_A>>
    /\ UNCHANGED <<chunkVars, loadVars, runVars>>

\* lines 534-537: the union of the used masks
Union ==
    /\ pc = "union"
    /\ IF Len(results) = 0
       THEN /\ pc' = "failed" /\ raised' = Some("IndexError")
            /\ UNCHANGED func_result
       ELSE /\ func_result' = [func_result EXCEPT
                                 !.tiles_used = Some(MaskUnion(results))]
            /\ pc' = IF output_mode = "hdf5" THEN "write" ELSE "build"
            /\ UNCHANGED raised
    /\ UNCHANGED <<zvals, pairs, store, n_parallel_jobs, output_mode,
                   chunks_per_file, task, out, finished, results, merged, CSR_A>>
    /\ UNCHANGED <<chunkVars, loadVars, runVars>>

\* lines 539-540, 565: persist the chunks and return; AttributeError when
\* the class has no write_chunks_to_files
WriteChunks ==
    /\ pc = "write"
    /\ IF "write_chunks_to_files" \in namespace
       THEN /\ files' = write_chunks_to_files(results, chunks_per_file)
            /\ results' = chunks_after_write(results, chunks_per_file)
            /\ func_result' = [func_result EXCEPT
                                 !.metadata = Some([f \in 1..Len(files') |-> f])]
            /\ CSR_A' = Some(func_result')
            /\ pc' = "done"
            /\ UNCHANGED raised
       ELSE /\ pc' = "failed" /\ raised' = Some("AttributeError")
            /\ UNCHANGED <<files, results, func_result, CSR_A>>
    /\ UNCHANGED <<zvals, pairs, store, n_parallel_jobs, output_mode,
                   chunks_per_file, task, out, finished, merged>>
    /\ UNCHANGED <<chunkVars, runVars>>

\* what lines 543-563 do to (func_result, merged): x and reg of the used
\* tiles, the merge, the matrix, the column slice; err names what raised
BuildSystemResult(fr, rs, tids) ==
    LET used == Val(fr.tiles_used)
        x    == UsedTileVecs(tids, used)
        res  == concatenate_results(rs)
        A    == IF IsNone(res) THEN None
                ELSE csr_matrix(Val(res).data, Val(res).indices, Val(res).indptr)
        As   == IF IsNone(A) THEN None ELSE ColumnSlice(Val(A), SliceInd(tids, used))
    IN  IF IsNone(x)
        THEN [err |-> Some("ValueError"), fr |-> fr, merged |-> None]
        ELSE IF IsNone(res)
        THEN [err |-> Some("ValueError"), merged |-> None,
              fr |-> [fr EXCEPT !.x = x]]
        ELSE IF IsNone(A)
        THEN [err |-> Some("ValueError"), merged |-> res,
              fr |-> [fr EXCEPT !.x = x]]
        ELSE IF IsNone(As)
        THEN [err |-> Some("IndexError"), merged |-> res,
              fr |-> [fr EXCEPT !.x = x, !.reg = x]]
        ELSE [err |-> None, merged |-> res,
              fr |-> [fr EXCEPT !.x = x, !.reg = x, !.A = As,
                                !.weights = Some(Val(res).weights)]]

\* lines 542-565
BuildSystem ==
    /\ pc = "build"
    /\ LET b == BuildSystemResult(func_result, results, tile_ids)
       IN  /\ func_result' = b.fr
           /\ merged' = b.merged
           /\ raised' = b.err
           /\ pc' = IF IsNone(b.err) THEN "done" ELSE "failed"
           /\ CSR_A' = IF IsNone(b.err) THEN Some(b.fr) ELSE None
    /\ UNCHANGED <<zvals, pairs, store, n_parallel_jobs, output_mode,
                   chunks_per_file, task, out, finished, results>>
    /\ UNCHANGED <<chunkVars, loadVars, runVars>>

Next ==
    \/ \E i \in 1..Len(task) : StartTask(i)
    \/ \E i \in 1..Len(task) : FinishTask(i)
    \/ \E i \in 1..Len(task) : FailTask(i)
    \/ MapReturn
    \/ MapRaise
    \/ Union
    \/ WriteChunks
    \/ BuildSystem

Spec == BuildInit /\ [][Next]_vars

(***************************************************************************)
(* A run: run, assemble_and_solve, assemble_from_db, assemble_from_hdf5,   *)
(* solve_or_not.                                                           *)
(***************************************************************************)
\* the match stores of a run: no group has a usable match; every group has.
\* The store answers every query of a run (no worker task fails).
RunStores == {[first |-> NoMatches, cross |-> NoMatches, rest |-> ForeignOnly],
              [first |-> Tiles123, cross |-> Tiles123, rest |-> Tiles12]}

\* np.arange(a, b + 1)
Arange(a, b) == [i \in 1..(b - a + 1) |-> a + i - 1]

\* every section of zvals, in the stack or not
MontageSectionsAll(zs, inStack) == zs

\* lines 225-229: the sections of zvals that are in z_in_stack, in order
MontageSections(zs, inStack) ==
    SelectIdx(zs, [i \in 1..Len(zs) |-> zs[i] \in inStack])

\* lines 309-317
assemble_struct == [A |-> None, weights |-> None, reg |-> None,
                    tspecs |-> None, tforms |-> None, tids |-> None,
                    shared_tforms |-> None, unused_tids |-> None]

\* a persisted system: one CSR data file with one point pair of tiles 1 and 2
\* (two rows), and the metadata file that goes with it
PersistedFile == [data |-> <<101, 102, 103, 104>>, indices |-> <<0, 2, 1, 3>>,
                  indptr |-> <<0, 2, 4>>, weights |-> <<<<1, 1>>, <<1, 1>>>>]

PersistedMeta(fs) ==
    IF Len(fs) = 0
    THEN [tids |-> <<>>, unused_tids |-> [i \in 1..NTiles |-> i],
          tforms |-> <<>>, lambda |-> <<>>]
    ELSE [tids |-> <<1, 2>>, unused_tids |-> [i \in 1..(NTiles - 2) |-> i + 2],
          tforms |-> TileVec(1) \o TileVec(2),
          lambda |-> TileVec(1) \o TileVec(2)]

\* lines 378-384: the first file's indptr whole, a later one's without its
\* leading entry and offset by the last pointer read so far
AppendPtr(acc, ptr, first) ==
    IF first THEN acc \o ptr ELSE acc \o AddAll(Tail(ptr), Last(acc))

\* lines 366-386: the arrays of all files, appended in the listed order
LoadFiles(fs) ==
    LET F[i \in 0..Len(fs)] ==
          IF i = 0 THEN [data |-> <<>>, indices |-> <<>>, indptr |-> <<>>,
                         weights |-> <<>>]
          ELSE [data    |-> F[i-1].data \o fs[i].data,
                indices |-> F[i-1].indices \o fs[i].indices,
                indptr  |-> AppendPtr(F[i-1].indptr, fs[i].indptr, i = 1),
                weights |-> F[i-1].weights \o fs[i].weights]
    IN  F[Len(fs)]

\* assemble_from_hdf5 (lines 319-409): the dict it returns (res) or what it
\* raises (err)
assemble_from_hdf5(fs, tids, read_data, names) ==
    LET l == LoadFiles(fs)
        meta == PersistedMeta(fs)
        A == csr_matrix(l.data, l.indices, l.indptr)
        r == [shared_tforms |-> Some(<<>>), tids |-> Some(meta.tids),
              unused_tids |-> Some(meta.unused_tids),
              tforms |-> Some(meta.tforms),
              tspecs |-> Some(SelectIdx(tids, [i \in 1..Len(tids) |->
                                                 tids[i] \in Range(meta.tids)])),
              reg |-> Some(meta.lambda),
              A |-> IF read_data THEN A ELSE None,
              weights |-> IF read_data THEN Some(l.weights) ELSE None]
    IN  IF "get_tileids_and_tforms" \notin names
        THEN [err |-> Some("NameError"), res |-> None]
        ELSE IF read_data /\ IsNone(A)
        THEN [err |-> Some("ValueError"), res |-> None]
        ELSE [err |-> None, res |-> Some(r)]

\* del d[key]
Del(d, key) == [kk \in (DOMAIN d) \ {key} |-> d[kk]]

\* del d[keys[1]], d[keys[2]], ...: left to right, up to the first key that
\* d does not have (KeyError, err)
DelAll(d, keys) ==
    LET F[i \in 0..Len(keys)] ==
          IF i = 0 THEN [d |-> d, err |-> FALSE]
          ELSE IF F[i-1].err THEN F[i-1]
          ELSE IF keys[i] \notin DOMAIN F[i-1].d THEN [d |-> F[i-1].d, err |-> TRUE]
          ELSE [d |-> Del(F[i-1].d, keys[i]), err |-> FALSE]
    IN  F[Len(keys)]

RunInit ==
    /\ tile_ids = [i \in 1..NTiles |-> i]
    /\ matrix_assembly = TableConfig
    /\ pair = [z1 |-> 0, z2 |-> 0, section1 |-> 0, section2 |-> 0]
    /\ ChunkIdle
    /\ zvals = {} /\ pairs = <<>> /\ n_parallel_jobs = 1 /\ chunks_per_file = 1
    /\ store \in RunStores
    /\ output_mode \in {"none", "hdf5", "stack"}
    /\ task = <<>> /\ out = <<>> /\ finished = <<>>
    /\ pc = "idle" /\ results = <<>> /\ func_result = NoResult
    /\ merged = None /\ CSR_A = None /\ raised = None
    /\ solve_type \in {"montage", "3D"}
    /\ first_section \in 0..LastSection
    /\ last_section \in first_section..MaxZ
    /\ close_stack \in (IF output_mode = "stack" THEN BOOLEAN ELSE {FALSE})
    /\ ingest_from_file \in BOOLEAN
    /\ assemble_from_file \in BOOLEAN
    /\ profile_data_load \in BOOLEAN
    /\ z_in_stack = {}
    /\ files \in (IF ingest_from_file \/ assemble_from_file
                  THEN {<<>>, <<PersistedFile>>, <<PersistedFile, PersistedFile>>}
                  ELSE {<<>>})
    /\ run_pc = "start" /\ run_zvals = <<>> /\ run_k = 0
    /\ ingestconn = None /\ stack_state = "none"
    /\ as_pc = "idle" /\ as_zvals = <<>> /\ assemble_result = None
    /\ as_results = None /\ as_raised = None /\ run_results = None
    /\ as_calls = <<>> /\ solve_calls = <<>> /\ sink_calls = <<>>

runArgs == <<solve_type, first_section, last_section, close_stack,
             ingest_from_file, assemble_from_file, profile_data_load>>

\* run, lines 201-213: zvals, and the output stack when the mode is 'stack'
RunStart ==
    /\ run_pc = "start"
    /\ run_zvals' = Arange(first_section, last_section)
    /\ IF output_mode = "stack"
       THEN ingestconn' = Some("output_stack") /\ stack_state' = "LOADING"
       ELSE UNCHANGED <<ingestconn, stack_state>>
    /\ run_pc' = solve_type
    /\ UNCHANGED <<runArgs, z_in_stack, run_k, as_pc, as_zvals, assemble_result, as_results,
                   as_raised, run_results, as_calls, solve_calls, sink_calls>>
    /\ UNCHANGED <<chunkVars, buildVars, loadVars>>

\* run, lines 216-229: ask the input stack for its sections and keep those
\* of zvals that it has
FilterSections ==
    /\ run_pc = "montage"
    /\ z_in_stack' \in SUBSET (0..MaxZ)
    /\ run_zvals' = MontageSections(run_zvals, z_in_stack')
    /\ run_k' = 0
    /\ run_pc' = IF Len(run_zvals') = 0 THEN "close" ELSE "loop"
    /\ UNCHANGED <<runArgs, ingestconn, stack_state, as_pc, as_zvals,
                   assemble_result, as_results, as_raised, run_results,
                   as_calls, solve_calls, sink_calls>>
    /\ UNCHANGED <<chunkVars, buildVars, loadVars>>

\* run, lines 230-233: assemble_and_solve(np.array([z]), ingestconn)
CallMontage ==
    /\ run_pc = "loop" /\ run_k < Len(run_zvals)
    /\ as_zvals' = <<run_zvals[run_k + 1]>>
    /\ as_calls' = Append(as_calls, as_zvals')
    /\ run_k' = run_k + 1
    /\ run_pc' = "in_call" /\ as_pc' = "assemble"
    /\ assemble_result' = None /\ as_results' = None
    /\ UNCHANGED <<runArgs, z_in_stack, run_zvals, ingestconn, stack_state, as_raised,
                   run_results, solve_calls, sink_calls>>
    /\ UNCHANGED <<chunkVars, buildVars, loadVars>>

\* run, line 236: assemble_and_solve(zvals, ingestconn)
Call3D ==
    /\ run_pc = "3D"
    /\ as_zvals' = run_zvals
    /\ as_calls' = Append(as_calls, as_zvals')
    /\ run_pc' = "in_call" /\ as_pc' = "assemble"
    /\ assemble_result' = None /\ as_results' = None
    /\ UNCHANGED <<runArgs, z_in_stack, run_zvals, run_k, ingestconn, stack_state,
                   as_raised, run_results, solve_calls, sink_calls>>
    /\ UNCHANGED <<chunkVars, buildVars, loadVars>>

\* assemble_and_solve, lines 254-267: the assembly from persisted files
AssembleFromHdf5 ==
    /\ as_pc = "assemble" /\ (ingest_from_file \/ assemble_from_file)
    /\ LET r == assemble_from_hdf5(files, tile_ids, ~ingest_from_file, namespace)
       IN  /\ assemble_result' = r.res
           /\ as_raised' = r.err
           /\ as_results' = IF IsNone(r.err) /\ ingest_from_file
                            THEN Some(<<>>) ELSE None
           /\ as_pc' = IF ~IsNone(r.err) THEN "raised"
                       ELSE IF ingest_from_file THEN "output" ELSE "stats"
    /\ UNCHANGED <<runArgs, z_in_stack, run_pc, run_zvals, run_k, ingestconn, stack_state,
                   as_zvals, run_results, as_calls, solve_calls, sink_calls>>
    /\ UNCHANGED <<chunkVars, buildVars, loadVars>>

\* assemble_and_solve, line 269, and assemble_from_db, lines 412-423, up to
\* pool.map of create_CSR_A (lines 513-532)
AssembleFromDb ==
    /\ as_pc = "assemble" /\ ~ingest_from_file /\ ~assemble_from_file
    /\ zvals' = Range(as_zvals)
    /\ pairs' = determine_zvalue_pairs(zvals', matrix_assembly.depth)
    /\ task' = [i \in 1..Len(pairs') |-> "pending"]
    /\ out' = [i \in 1..Len(pairs') |-> None]
    /\ finished' = <<>>
    /\ pc' = "map" /\ results' = <<>> /\ func_result' = NoResult
    /\ merged' = None /\ CSR_A' = None /\ raised' = None
    /\ as_pc' = "create_CSR_A"
    /\ UNCHANGED <<store, n_parallel_jobs, output_mode, chunks_per_file>>
    /\ UNCHANGED <<runArgs, z_in_stack, run_pc, run_zvals, run_k, ingestconn, stack_state,
                   as_zvals, assemble_result, as_results, as_raised,
                   run_results, as_calls, solve_calls, sink_calls>>
    /\ UNCHANGED <<chunkVars, loadVars>>

\* assemble_from_db, lines 423-465: create_CSR_A has returned or raised
AssembleFromDbReturn ==
    /\ as_pc = "create_CSR_A" /\ pc \in {"done", "failed"}
    /\ IF pc = "failed"
       THEN /\ as_raised' = raised /\ as_pc' = "raised"
            /\ UNCHANGED assemble_result
       ELSE IF output_mode = "hdf5" /\ "write_reg_and_tforms" \notin namespace
       THEN /\ as_raised' = Some("NameError") /\ as_pc' = "raised"
            /\ UNCHANGED assemble_result
       ELSE /\ assemble_result' =
                 Some([resolved |-> Some(tile_ids), A |-> Val(CSR_A).A,
                       weights |-> Val(CSR_A).weights,
                       tiles_used |-> Val(CSR_A).tiles_used,
                       reg |-> Val(CSR_A).reg, x |-> Val(CSR_A).x]
                      @@ assemble_struct)
            /\ as_pc' = "stats"
            /\ UNCHANGED as_raised
    /\ UNCHANGED <<runArgs, z_in_stack, run_pc, run_zvals, run_k, ingestconn, stack_state,
                   as_zvals, as_results, run_results, as_calls, solve_calls,
                   sink_calls>>
    /\ UNCHANGED <<chunkVars, buildVars, loadVars>>

\* assemble_and_solve, lines 271-279: the statistics and the profiling exit
Stats ==
    /\ as_pc = "stats"
    /\ IF "tiles_used" \notin DOMAIN Val(assemble_result)
       THEN as_raised' = Some("KeyError") /\ as_pc' = "raised"
       ELSE IF profile_data_load
       THEN /\ as_raised' = IF "EMalignerException" \in namespace
                            THEN Some("EMalignerException")
                            ELSE Some("NameError")
            /\ as_pc' = "raised"
       ELSE as_pc' = "solve" /\ UNCHANGED as_raised
    /\ UNCHANGED <<runArgs, z_in_stack, run_pc, run_zvals, run_k, ingestconn, stack_state,
                   as_zvals, assemble_result, as_results, run_results,
                   as_calls, solve_calls, sink_calls>>
    /\ UNCHANGED <<chunkVars, buildVars, loadVars>>

\* what utils.solve returns from a system
Solved(A, x0) == [x |-> <<"solved", x0>>]

\* assemble_and_solve, lines 282-291, with solve_or_not (lines 568-611):
\* no solve when the output mode is 'hdf5', else utils.solve(A, weights,
\* reg, x0), which returns or raises
Solve ==
    /\ as_pc = "solve"
    /\ LET ar == Val(assemble_result)
       IN  IF "x" \notin DOMAIN ar
           THEN /\ as_raised' = Some("KeyError") /\ as_pc' = "raised"
                /\ UNCHANGED <<assemble_result, as_results, solve_calls>>
           ELSE IF output_mode = "hdf5"
           THEN /\ as_results' = None
                /\ assemble_result' = Some(Del(ar, "A"))
                /\ as_pc' = "output"
                /\ UNCHANGED <<as_raised, solve_calls>>
           ELSE /\ solve_calls' = Append(solve_calls,
                                    [call |-> Len(as_calls), A |-> ar.A,
                                     weights |-> ar.weights, reg |-> ar.reg,
                                     x0 |-> ar.x])
                /\ \E ok \in BOOLEAN :
                     IF ok
                     THEN /\ as_results' =
                               Some(IF IsNone(ar.A) THEN Solved(ar.A, ar.x)
                                    ELSE [Ashape |-> Val(ar.A).shape]
                                         @@ Solved(ar.A, ar.x))
                          /\ assemble_result' = Some(Del(ar, "A"))
                          /\ as_pc' = "output"
                          /\ UNCHANGED as_raised
                     ELSE /\ as_raised' = Some("SolveError")
                          /\ as_pc' = "raised"
                          /\ UNCHANGED <<assemble_result, as_results>>
    /\ UNCHANGED <<runArgs, z_in_stack, run_pc, run_zvals, run_k, ingestconn, stack_state,
                   as_zvals, run_results, as_calls, sink_calls>>
    /\ UNCHANGED <<chunkVars, buildVars, loadVars>>

\* assemble_and_solve, lines 293-307: the output stack, the clean-up, return
Output ==
    /\ as_pc = "output"
    /\ LET ar == Val(assemble_result)
           toStack == output_mode = "stack"
           keyErr1 == toStack /\ ("resolved" \notin DOMAIN ar
                                  \/ "x" \notin DOMAIN Val(as_results)
                                  \/ "tiles_used" \notin DOMAIN ar)
           dl == DelAll(ar, <<"shared_tforms", "tspecs", "x">>)
       IN  /\ sink_calls' = IF toStack /\ ~keyErr1
                            THEN Append(sink_calls,
                                        [call |-> Len(as_calls),
                                         x |-> Val(as_results).x,
                                         tiles_used |-> ar.tiles_used])
                            ELSE sink_calls
           /\ IF keyErr1
              THEN /\ as_raised' = Some("KeyError") /\ as_pc' = "raised"
                   /\ UNCHANGED assemble_result
              ELSE /\ assemble_result' = Some(dl.d)
                   /\ as_raised' = IF dl.err THEN Some("KeyError") ELSE as_raised
                   /\ as_pc' = IF dl.err THEN "raised" ELSE "returned"
    /\ UNCHANGED <<runArgs, z_in_stack, run_pc, run_zvals, run_k, ingestconn,
                   stack_state, as_zvals, as_results, run_results, as_calls,
                   solve_calls>>
    /\ UNCHANGED <<chunkVars, buildVars, loadVars>>

\* run, lines 231 and 236: self.results = what the call returned
Return ==
    /\ as_pc = "returned" /\ run_pc = "in_call"
    /\ run_results' = as_results
    /\ as_pc' = "idle"
    /\ run_pc' = IF solve_type = "montage" /\ run_k < Len(run_zvals)
                 THEN "loop" ELSE "close"
    /\ UNCHANGED <<runArgs, z_in_stack, run_zvals, run_k, ingestconn, stack_state,
                   as_zvals, assemble_result, as_results, as_raised, as_calls,
                   solve_calls, sink_calls>>
    /\ UNCHANGED <<chunkVars, buildVars, loadVars>>

\* an exception of assemble_and_solve leaves run, which has no handler
Propagate ==
    /\ as_pc = "raised" /\ run_pc = "in_call"
    /\ run_pc' = "raised"
    /\ UNCHANGED <<runArgs, z_in_stack, run_zvals, run_k, ingestconn, stack_state, as_pc,
                   as_zvals, assemble_result, as_results, as_raised,
                   run_results, as_calls, solve_calls, sink_calls>>
    /\ UNCHANGED <<chunkVars, buildVars, loadVars>>

\* run, lines 238-244: close the output stack
CloseStack ==
    /\ run_pc = "close"
    /\ stack_state' = IF ~IsNone(ingestconn) /\ close_stack
                      THEN "COMPLETE" ELSE stack_state
    /\ run_pc' = "done"
    /\ UNCHANGED <<runArgs, z_in_stack, run_zvals, run_k, ingestconn, as_pc, as_zvals,
                   assemble_result, as_results, as_raised, run_results,
                   as_calls, solve_calls, sink_calls>>
    /\ UNCHANGED <<chunkVars, buildVars, loadVars>>

RunNext ==
    \/ RunStart
    \/ FilterSections
    \/ CallMontage
    \/ Call3D
    \/ AssembleFromHdf5
    \/ AssembleFromDb
    \/ \E i \in 1..Len(task) : StartTask(i)
    \/ \E i \in 1..Len(task) : FinishTask(i)
    \/ MapReturn
    \/ Union
    \/ WriteChunks
    \/ BuildSystem
    \/ AssembleFromDbReturn
    \/ Stats
    \/ Solve
    \/ Output
    \/ Return
    \/ Propagate
    \/ CloseStack

SpecRun == RunInit /\ [][RunNext]_vars

(***************************************************************************)
(* Properties of one ChunkAssembler task (SpecChunk, SpecWeight).          *)
(***************************************************************************)
NonDecreasing(s) == \A i \in 1..(Len(s) - 1) : s[i] <= s[i + 1]

\* the CSR shape of a chunk with rows rows
ChunkShape(c, rows) ==
    /\ Len(Val(c.indptr)) = rows + 1
    /\ Val(c.indptr)[1] = 0
    /\ NonDecreasing(Val(c.indptr))
    /\ Last(Val(c.indptr)) = Len(Val(c.data))
    /\ Len(Val(c.weights)) = rows

\* what the sub-blocks spliced in so far amount to
BlockData == Concat([i \in 1..Len(blocks) |-> blocks[i].d])
BlockIndices == Concat([i \in 1..Len(blocks) |-> blocks[i].ind])
BlockRows == Concat([i \in 1..Len(blocks) |-> blocks[i].wts])
BlockPtr == LET F[i \in 0..Len(blocks)] ==
                  IF i = 0 THEN <<0>>
                  ELSE F[i-1] \o AddAll(blocks[i].iptr, Last(F[i-1]))
            IN  F[Len(blocks)]

\* C1 as stated: every chunk the task returns, the empty one included, has a
\* row-pointer array of length rows + 1 that starts at 0, is non-decreasing
\* and ends at the length of the value array, and a weight vector of length rows
C1_AsStated ==
    cpc = "returned" =>
        /\ ~IsNone(Val(chunk).indptr) /\ ~IsNone(Val(chunk).data)
        /\ ~IsNone(Val(chunk).weights)
        /\ ChunkShape(Val(chunk), nrows)

\* C1 amended: a returned chunk has null arrays exactly when no match has both
\* tile ids in the tile set; every other returned chunk has a row-pointer array
\* of length rows + 1 that starts at 0, is non-decreasing and ends at the length
\* of the value array, a weight vector of length rows, and rows is the number
\* of rows of the sub-blocks spliced in
C1_ChunkShape ==
    cpc = "returned" =>
        LET c == Val(chunk)
        IN  /\ IsNone(c.data) <=> (matches = <<>>)
            /\ IsNone(c.data) =>
                 IsNone(c.indptr) /\ IsNone(c.weights) /\ IsNone(c.indices)
            /\ ~IsNone(c.data) =>
                 /\ ~IsNone(c.indptr) /\ ~IsNone(c.weights) /\ ~IsNone(c.indices)
                 /\ ChunkShape(c, nrows)
                 /\ nrows = Len(BlockRows)
                 /\ Len(Val(c.indices)) = Len(Val(c.data))

\* a chunk was returned after some matches were spliced in and some skipped
C1_Witness ==
    /\ cpc = "returned" /\ ~IsNone(Val(chunk).data)
    /\ Len(matches) = MaxMatches /\ Len(blocks) = 1 /\ nrows > 0

\* C3: with a table configured the factor is the table entry at the position
\* where the depth list holds |z1 - z2|, whatever the other settings; without
\* one it is the montage weight for z1 = z2, else the cross weight, divided by
\* |z2 - z1| + 1 exactly when inverse_dz is set
C3_PairWeight ==
    ~IsNone(tp_weight) =>
        LET w  == Val(tp_weight)
            ma == matrix_assembly
            dz == Abs(pair.z1 - pair.z2)
        IN  IF ~IsNone(ma.explicit_weight_by_depth)
            THEN \E i \in 1..Len(ma.depth) :
                    /\ ma.depth[i] = dz
                    /\ \A j \in 1..(i - 1) : ma.depth[j] # dz
                    /\ w = Val(ma.explicit_weight_by_depth)[i]
            ELSE /\ pair.z1 = pair.z2 => w = ma.montage_pt_weight
                 /\ (pair.z1 # pair.z2 /\ ~ma.inverse_dz) => w = ma.cross_pt_weight
                 /\ (pair.z1 # pair.z2 /\ ma.inverse_dz) =>
                       /\ w[1] * ma.cross_pt_weight[2] * (dz + 1)
                            = ma.cross_pt_weight[1] * w[2]
                       /\ w = Rat(w[1], w[2])

\* the factor of a cross pair two sections apart under inverse-distance
\* weighting, and of a pair weighted by a table that differs from the constants
C3_Witness ==
    /\ ~IsNone(tp_weight)
    /\ \/ /\ IsNone(matrix_assembly.explicit_weight_by_depth)
          /\ matrix_assembly.inverse_dz
          /\ pair.z2 - pair.z1 = 2
          /\ Val(tp_weight) = Rat(1, 3)
       \/ /\ ~IsNone(matrix_assembly.explicit_weight_by_depth)
          /\ matrix_assembly.inverse_dz
          /\ matrix_assembly.depth = <<1, 2>>
          /\ pair.z1 - pair.z2 = 2
          /\ Val(tp_weight) = Rat(1, 2)

\* the row weights the transform model gave the sub-blocks, times fac
RowsTimes(fac) == [i \in 1..Len(BlockRows) |-> RatMul(BlockRows[i], fac)]

\* C4 as stated: under depth table [0:1.0, 1:0.5], montage 2.0, cross 1.0,
\* inverse-dz off, a same-section pair gets factor 2.0 and a depth-1 pair 0.5,
\* and every row weight of the chunk is the transform model's row weight
\* times that factor
C4_AsStated ==
    (matrix_assembly = TableConfig /\ ~IsNone(tilepair_weightfac)) =>
        /\ pair.z1 = pair.z2 => Val(tilepair_weightfac) = Rat(2, 1)
        /\ Abs(pair.z1 - pair.z2) = 1 => Val(tilepair_weightfac) = Rat(1, 2)
        /\ (cpc = "returned" /\ pair.z1 = pair.z2) =>
              Val(Val(chunk).weights) = RowsTimes(Rat(2, 1))
        /\ (cpc = "returned" /\ Abs(pair.z1 - pair.z2) = 1) =>
              Val(Val(chunk).weights) = RowsTimes(Rat(1, 2))

\* C4 amended: under that configuration a same-section pair gets the table's
\* depth-0 value 1.0 (not the montage weight 2.0) and a depth-1 pair 0.5, and
\* every row weight of the chunk is the transform model's row weight times
\* that factor
C4_TableWeight ==
    (matrix_assembly = TableConfig /\ ~IsNone(tilepair_weightfac)) =>
        /\ pair.z1 = pair.z2 => Val(tilepair_weightfac) = Rat(1, 1)
        /\ Abs(pair.z1 - pair.z2) = 1 => Val(tilepair_weightfac) = Rat(1, 2)
        /\ (cpc = "returned" /\ pair.z1 = pair.z2) =>
              Val(Val(chunk).weights) = RowsTimes(Rat(1, 1))
        /\ (cpc = "returned" /\ Abs(pair.z1 - pair.z2) = 1) =>
              Val(Val(chunk).weights) = RowsTimes(Rat(1, 2))

\* a depth-1 pair under that configuration returned a chunk with rows of
\* transform weight 2, each now weighing 1
C4_Witness ==
    /\ matrix_assembly = TableConfig /\ cpc = "returned"
    /\ Abs(pair.z1 - pair.z2) = 1
    /\ ~IsNone(Val(chunk).weights)
    /\ \E i \in 1..Len(BlockRows) :
          BlockRows[i] = Rat(2, 1) /\ Val(Val(chunk).weights)[i] = Rat(1, 1)

\* C7: when every match contributes at most npts_max points or is skipped, no
\* write leaves the pre-allocated buffers (the task never raises, and the rows
\* and non-zeros written fit the buffers), and the returned data, indices,
\* indptr and weights are exactly the spliced sub-blocks, back to back in
\* match order, with nothing after them
C7_Truncation ==
    /\ cpc # "raised"
    /\ cpc = "loop" =>
          /\ nrows * nnz_per_row <= Len(data)
          /\ nrows * nnz_per_row <= Len(indices)
          /\ nrows <= Len(weights) /\ nrows + 1 <= Len(indptr)
          /\ SubSeq(data, 1, nrows * nnz_per_row) = BlockData
    /\ (cpc = "returned" /\ ~IsNone(Val(chunk).data)) =>
          /\ Val(Val(chunk).data) = BlockData
          /\ Val(Val(chunk).indices) = BlockIndices
          /\ Val(Val(chunk).indptr) = BlockPtr
          /\ Val(Val(chunk).weights) = RowsTimes(Val(tilepair_weightfac))
          /\ \A i \in 1..Len(Val(Val(chunk).data)) : Val(Val(chunk).data)[i] # 0

\* a chunk was returned whose matches used fewer point slots than allocated:
\* one match below npts_max, one skipped
C7_Witness ==
    /\ cpc = "returned" /\ ~IsNone(Val(chunk).data)
    /\ Len(matches) = MaxMatches /\ Len(blocks) = 1
    /\ blocks[1].npts < matrix_assembly.npts_max
    /\ Len(Val(Val(chunk).data)) < Len(data)
    /\ Len(Val(Val(chunk).data)) = blocks[1].npts * rows_per_ptmatch * nnz_per_row

(***************************************************************************)
(* Properties of the build (Spec).                                         *)
(***************************************************************************)
CountTrue(mask) == Cardinality({i \in 1..Len(mask) : mask[i]})

\* the tile (position in tile_ids, from 1) that owns column c of the design matrix
TileOfColumn(c) == (c \div DOF_per_tile) + 1

\* C2: after create_CSR_A has built the system, whatever the used mask, the
\* sliced matrix A has exactly DOF_per_tile columns per used tile, every column
\* it kept is a column of a used tile, every column of a used tile is kept, and
\* its column indices lie within its width
C2_ColumnSelection ==
    (pc = "done" /\ output_mode = "none") =>
        LET A    == Val(func_result.A)
            used == Val(func_result.tiles_used)
        IN  /\ A.shape[2] = DOF_per_tile * CountTrue(used)
            /\ \A c \in Range(A.cols) : used[TileOfColumn(c)]
            /\ \A t \in 1..Len(used) : used[t] =>
                  \A c \in 0..(DOF_per_tile - 1) :
                      ((t - 1) * DOF_per_tile + c) \in Range(A.cols)
            /\ \A j \in 1..Len(A.indices) : A.indices[j] < A.shape[2]
            /\ Len(A.indices) = Len(Val(merged).indices)

\* the system was built with the last tile of the global order unused and an
\* earlier one used
C2_Witness ==
    /\ pc = "done" /\ output_mode = "none"
    /\ ~Val(func_result.tiles_used)[NTiles]
    /\ Val(func_result.tiles_used)[1]
    /\ Val(func_result.A).shape[2] = DOF_per_tile * (NTiles - 1)

\* C5: empty input is never fatal: a group without usable matches yields a
\* chunk with null arrays and an all-false mask, and whenever some or all
\* groups yield such chunks the union, the merge and the build do not raise
\* (the missing writer method fails the persist step whatever the chunks are)
C5_EmptyNeverFatal ==
    /\ \A i \in 1..Len(results) :
          IsNone(results[i].data) =>
             /\ IsNone(results[i].indices) /\ IsNone(results[i].indptr)
             /\ IsNone(results[i].weights)
             /\ \A t \in 1..Len(results[i].tiles_used) : ~results[i].tiles_used[t]
    /\ (\E i \in 1..Len(results) : IsNone(results[i].data)) =>
          (pc = "failed" => raised = Some("AttributeError"))

\* the chunks as the tasks returned them, in the order of the groups
Returned == [i \in 1..Len(out) |-> Val(out[i])]

\* the row pointers of the chunks with data, joined the way the merge is
\* described: each later chunk without its leading zero, offset by the
\* accumulator's last pointer
RebasedPtr(cs) ==
    LET F[i \in 1..Len(cs)] ==
          IF i = 1 THEN Val(cs[1].indptr)
          ELSE F[i-1] \o AddAll(Tail(Val(cs[i].indptr)), Last(F[i-1]))
    IN  F[Len(cs)]

\* C8: for chunks of which at least one has data (empty ones leading,
\* interleaved or trailing), the merge is the value, index and weight arrays
\* of the chunks with data back to back in order, and their row pointers
\* re-based; the merged row pointers start at 0, never decrease, number
\* rows + 1 and end at the number of values; concatenate_chunks gives the same
C8_Merge ==
    (pc \in {"done", "failed"} /\ ~IsNone(merged)) =>
        LET m  == Val(merged)
            cs == NonNull(results)
            cc == concatenate_chunks(results)
        IN  /\ m.data = Concat([i \in 1..Len(cs) |-> Val(cs[i].data)])
            /\ m.indices = Concat([i \in 1..Len(cs) |-> Val(cs[i].indices)])
            /\ m.weights = Concat([i \in 1..Len(cs) |-> Val(cs[i].weights)])
            /\ m.indptr = RebasedPtr(cs)
            /\ m.indptr[1] = 0 /\ NonDecreasing(m.indptr)
            /\ Len(m.indptr) = Len(m.weights) + 1
            /\ Last(m.indptr) = Len(m.data)
            /\ Val(cc.data) = m.data /\ Val(cc.indices) = m.indices
            /\ Val(cc.indptr) = m.indptr /\ Val(cc.weights) = m.weights

\* a merge of three chunks: the first empty, then one with rows, then one with rows
C8_Witness ==
    /\ pc = "done" /\ ~IsNone(merged) /\ Len(results) >= 3
    /\ IsNone(results[1].data)
    /\ ~IsNone(results[2].data) /\ ~IsNone(results[3].data)
    /\ Len(Val(results[2].data)) > 0 /\ Len(Val(results[3].data)) > 0
    /\ Len(Val(merged).indptr) > Len(Val(results[2].indptr))

\* match m of the store contributes: both tiles in the stack, not skipped
Contributes(m) ==
    /\ m.pId \in Range(tile_ids) /\ m.qId \in Range(tile_ids)
    /\ m.w # 0 /\ m.n >= matrix_assembly.npts_min

\* C9: after the union a tile is marked used exactly when some match of some
\* group names it as source or target, has both tiles in the tile set and is
\* not skipped by the transform model; the mask is the OR of all chunks' masks
C9_UsedMask ==
    ~IsNone(func_result.tiles_used) =>
        LET used == Val(func_result.tiles_used)
        IN  /\ Len(used) = Len(tile_ids)
            /\ \A t \in 1..Len(tile_ids) :
                 used[t] <=>
                    \E i \in 1..Len(pairs) :
                       \E m \in Range(get_matches(store, zvals, pairs[i])) :
                          Contributes(m) /\ tile_ids[t] \in {m.pId, m.qId}
            /\ \A t \in 1..Len(tile_ids) :
                 used[t] <=> \E i \in 1..Len(results) : results[i].tiles_used[t]

\* the union was taken over an empty chunk, a chunk of skipped matches and a
\* chunk that marks tiles, with the tile ids out of order and one tile unused
C9_Witness ==
    /\ ~IsNone(func_result.tiles_used)
    /\ tile_ids[1] # 1
    /\ store.first = Tiles12 /\ store.cross = SkippedOnly /\ store.rest = ForeignOnly
    /\ Len(results) = 3
    /\ CountTrue(Val(func_result.tiles_used)) = 2

PostMap == {"union", "write", "build", "done"}

\* C10: the union and the merge run only once every task (one per group,
\* each run once) has returned; they see the chunks in the order of the
\* groups whatever the order of completion; and when a task has failed there
\* is no union, no merge and nothing returned (after the writer ran the list
\* holds the chunks as concatenate_chunks left them)
C10_Barrier ==
    /\ Len(task) = Len(pairs)
    /\ \A a, b \in 1..Len(finished) : finished[a] = finished[b] => a = b
    /\ pc \in PostMap =>
          /\ \A i \in 1..Len(task) : task[i] = "done"
          /\ Len(results) = Len(pairs)
          /\ results = IF pc = "done" /\ output_mode = "hdf5"
                       THEN chunks_after_write(Returned, chunks_per_file)
                       ELSE Returned
          /\ \A i \in 1..Len(pairs) :
                ~IsNone(Val(out[i]).data) =>
                   Val(out[i]).zlist = <<pairs[i].z1, pairs[i].z2>>
    /\ ~IsNone(merged) =>
          Val(merged).zlist =
             Concat([i \in 1..Len(pairs) |->
                       IF IsNone(results[i].data) THEN <<>>
                       ELSE <<pairs[i].z1, pairs[i].z2>>])
    /\ (\E i \in 1..Len(task) : task[i] = "failed") =>
          /\ pc \in {"map", "failed"}
          /\ results = <<>> /\ IsNone(func_result.tiles_used)
          /\ IsNone(merged) /\ IsNone(CSR_A) /\ files = <<>>
    /\ pc = "failed" => IsNone(CSR_A)

\* the system was built from chunks whose tasks completed out of order
C10_Witness ==
    /\ pc = "done" /\ ~IsNone(merged)
    /\ Len(finished) = 3 /\ finished[1] = 2 /\ finished[2] = 1
    /\ ~IsNone(results[1].data) /\ ~IsNone(results[2].data)

(***************************************************************************)
(* Properties of a run (SpecRun).                                          *)
(***************************************************************************)
\* the assemble_and_solve call in progress or last made
ThisCall == Len(as_calls)

\* how often utils.solve / utils.write_to_new_stack was called within call c
SolveCount(c) == Cardinality({j \in 1..Len(solve_calls) : solve_calls[j].call = c})
SinkCount(c) == Cardinality({j \in 1..Len(sink_calls) : sink_calls[j].call = c})

\* assemble_and_solve has returned or raised
CallEnded == ThisCall > 0 /\ as_pc \in {"returned", "raised", "idle"}

\* the assembly step of this call returned a system
Assembled == ~IsNone(assemble_result)

\* the chunk a CSR data file holds
FileChunk(f) == [data |-> Some(f.data), indices |-> Some(f.indices),
                 indptr |-> Some(f.indptr), weights |-> Some(f.weights),
                 zlist |-> <<>>]

\* C6: once a call has loaded the persisted CSR data files (assemble_from_file)
\* in their listed order, the system it assembled has the data, indices,
\* indptr and weights that concatenate_results produces from the chunks the
\* files hold, in the same order
C6_LoadEqualsMerge ==
    (ThisCall > 0 /\ assemble_from_file /\ ~ingest_from_file
     /\ Len(files) > 0 /\ as_pc \in {"stats", "raised"}) =>
        /\ Assembled
        /\ LET m  == Val(concatenate_results([f \in 1..Len(files) |->
                                                FileChunk(files[f])]))
               ar == Val(assemble_result)
           IN  /\ ar.A = csr_matrix(m.data, m.indices, m.indptr)
               /\ ar.weights = Some(m.weights)

\* C11: within a call, in solve mode (output mode not 'hdf5', no
\* ingest_from_file) and without the profiling flag, the solver is called
\* exactly once, with the A, weights, reg and x of the assembled system, once
\* the call has ended: when the system was built from the store, and when a
\* persisted system is loaded with assemble_from_file; the solver is called at
\* most once per call, and never with output mode 'hdf5' or ingest_from_file
C11_SolverOnce ==
    /\ \A c \in 1..Len(as_calls) : SolveCount(c) <= 1
    /\ (output_mode = "hdf5" \/ ingest_from_file) => solve_calls = <<>>
    /\ (CallEnded /\ output_mode # "hdf5" /\ ~ingest_from_file
        /\ ~profile_data_load) =>
          /\ (~assemble_from_file /\ pc = "done") =>
                /\ SolveCount(ThisCall) = 1
                /\ LET sc == Last(solve_calls)
                   IN  /\ sc.A = Val(CSR_A).A /\ sc.weights = Val(CSR_A).weights
                       /\ sc.reg = Val(CSR_A).reg /\ sc.x0 = Val(CSR_A).x
                       /\ ~IsNone(sc.A)
          /\ (assemble_from_file /\ Len(files) > 0) => SolveCount(ThisCall) = 1

\* C12: with profile_data_load set, a call whose assembly returned a system
\* ends without calling the solver or the output sink, and it ends by the
\* requested exit (the exception "exiting after timing profile"), not by an
\* error
C12_ProfileExit ==
    (profile_data_load /\ CallEnded /\ Assembled) =>
        /\ SolveCount(ThisCall) = 0
        /\ SinkCount(ThisCall) = 0
        /\ as_pc = "raised" /\ as_raised = Some("EMalignerException")

\* C13: in montage mode every call has a single section, which is in
\* [first_section, last_section] and in the input stack, the sections of
\* successive calls ascend (so none is called twice), and once the loop is
\* over every such section has been called; in 3D mode there is at most one
\* call, with all of first_section..last_section, and it has been made once
\* run goes on; the output stack is COMPLETE only when the mode is 'stack',
\* close_stack is set and every one of these calls has returned
C13_RunCalls ==
    LET wanted == {z \in first_section..last_section : z \in z_in_stack}
        called == {as_calls[i][1] : i \in 1..Len(as_calls)}
        over   == run_pc \in {"close", "done"}
        full   == [i \in 1..(last_section - first_section + 1) |->
                     first_section + i - 1]
    IN  /\ solve_type = "montage" =>
              /\ \A i \in 1..Len(as_calls) :
                    Len(as_calls[i]) = 1 /\ as_calls[i][1] \in wanted
              /\ \A i, j \in 1..Len(as_calls) :
                    i < j => as_calls[i][1] < as_calls[j][1]
              /\ over => called = wanted
        /\ solve_type = "3D" =>
              /\ Len(as_calls) <= 1
              /\ \A i \in 1..Len(as_calls) : as_calls[i] = full
              /\ over => Len(as_calls) = 1
        /\ stack_state = "COMPLETE" =>
              /\ output_mode = "stack" /\ close_stack
              /\ run_pc = "done" /\ as_pc = "idle"
              /\ IsNone(as_raised)
        /\ output_mode # "stack" => stack_state = "none"
        /\ (run_pc = "done" /\ output_mode = "stack" /\ ~close_stack) =>
              stack_state = "LOADING"

\* a montage run over sections 0..MaxZ of which the stack lacks section 1:
\* one call per section the stack has, then the output stack is closed
C13_Witness ==
    /\ solve_type = "montage" /\ run_pc = "done"
    /\ first_section = 0 /\ last_section = MaxZ /\ 1 \notin z_in_stack
    /\ Len(as_calls) = MaxZ /\ as_calls[1] = <<0>> /\ as_calls[2] = <<2>>
    /\ stack_state = "COMPLETE" /\ Len(sink_calls) = MaxZ

=============================================================================
